---- MODULE Spec2Model ----
(***************************************************************************)
(* Model of src/app.py (log viewer): the record parser parse_log_line, the *)
(* file reader load_logs, the sync loop of main with download_log_file,    *)
(* and the table that main filters, sorts and annotates with time deltas.  *)
(*                                                                         *)
(* Text is modelled character by character: a string is a sequence of      *)
(* one-character strings, so that substring tests and the regular          *)
(* expression of parse_log_line are computed on the program's literals.    *)
(***************************************************************************)
EXTENDS Integers, Sequences, FiniteSets, TLC

VARIABLES
    \* parse_log_line applied to one blob
    blob, parsed, ppc,
    \* load_logs scanning the *.log files of one folder
    files, todo, cur, lineNo, buffer, log_entries, calls, lpc,
    \* main: the sync of a source and the folder its table is loaded from
    dirs, disk, sel, listing, idx, count, reports, table, spc,
    \* main: the table from load_logs to the one that is displayed
    df, selected_time_zone, date_range, request_ids, shown, total_time_sec, tpc

parseVars == <<blob, parsed, ppc>>
loadVars == <<files, todo, cur, lineNo, buffer, log_entries, calls, lpc>>
syncVars == <<dirs, disk, sel, listing, idx, count, reports, table, spc>>
tableVars ==
    <<df, selected_time_zone, date_range, request_ids, shown, total_time_sec, tpc>>
vars == <<parseVars, loadVars, syncVars, tableVars>>

----------------------------------------------------------------------------
(* Bounds of the model *)

\* number of text fragments a blob handed to parse_log_line is made of
MaxFrags == 5
\* number of lines the files of a folder hold between them
MaxLines == 3
\* number of file names a listing holds
MaxListing == 2
\* number of records load_logs returns to main
MaxRecords == 3

----------------------------------------------------------------------------
(* Literals of the program *)

NL == "\n"
\* "request_id: " (line 61)
RID == <<"r", "e", "q", "u", "e", "s", "t", "_", "i", "d", ":", " ">>
\* ", " ending each of the four comma-delimited fields (lines 61-64)
CS == <<",", " ">>
\* ": " after the message type (line 65)
COL == <<":", " ">>
INFO == <<"I", "N", "F", "O">>
ERROR == <<"E", "R", "R", "O", "R">>
\* ", extra_info: " (line 43 and line 66)
SEP == <<",", " ", "e", "x", "t", "r", "a", "_", "i", "n", "f", "o", ":", " ">>

None == [none |-> TRUE]

----------------------------------------------------------------------------
(* String helpers *)

\* s[i..] starts with lit
StartsAt(s, i, lit) ==
    /\ i >= 1
    /\ i + Len(lit) - 1 <= Len(s)
    /\ \A k \in 1..Len(lit) : s[i + k - 1] = lit[k]

\* `lit in s` of Python
Contains(s, lit) == \E i \in 1..Len(s) : StartsAt(s, i, lit)

\* s[i:] of Python, 1-based
From(s, i) == SubSeq(s, i, Len(s))

RECURSIVE Concat(_)
Concat(ss) == IF ss = <<>> THEN <<>> ELSE Head(ss) \o Concat(Tail(ss))

\* index of the first "," at or after i, 0 when there is none
RECURSIVE NextComma(_, _)
NextComma(s, i) ==
    IF i > Len(s) THEN 0
    ELSE IF s[i] = "," THEN i
    ELSE NextComma(s, i + 1)

----------------------------------------------------------------------------
(* parse_log_line *)

\* `[^,]+, ` at i: the index after the ", ", 0 when there is no match. The
\* class cannot cross a comma, so the field ends at the first comma.
FieldEnd(s, i) ==
    LET j == NextComma(s, i)
    IN  IF j > i /\ StartsAt(s, j, CS) THEN j + Len(CS) ELSE 0

\* `(INFO|ERROR): ` at i: the index after it, 0 when there is no match
MessageTypeEnd(s, i) ==
    IF StartsAt(s, i, INFO \o COL) THEN i + Len(INFO \o COL)
    ELSE IF StartsAt(s, i, ERROR \o COL) THEN i + Len(ERROR \o COL)
    ELSE 0

\* "request_id: " and the four fields and the message type at i: the index
\* where the message starts, 0 when there is no match
HeaderEnd(s, i) ==
    IF ~StartsAt(s, i, RID) THEN 0
    ELSE LET a == FieldEnd(s, i + Len(RID))
             b == IF a = 0 THEN 0 ELSE FieldEnd(s, a)
             c == IF b = 0 THEN 0 ELSE FieldEnd(s, b)
             d == IF c = 0 THEN 0 ELSE FieldEnd(s, c)
         IN  IF d = 0 THEN 0 ELSE MessageTypeEnd(s, d)

\* The first occurrence of the separator instead of the greedy one.
MessageEndFirst(s, p) ==
    LET ok == {q \in p..Len(s) : StartsAt(s, q, SEP) /\ q + Len(SEP) <= Len(s)}
    IN  IF ok = {} THEN 0 ELSE CHOOSE q \in ok : \A r \in ok : q <= r

\* `(?P<message>.*), extra_info: (?P<extra_info>.+)` with DOTALL, the message
\* starting at p: the index of the separator the greedy `.*` stops at, which
\* is the rightmost one that leaves at least one character for `.+`;
\* 0 when there is no match
MessageEnd(s, p) ==
    LET ok == {q \in p..Len(s) : StartsAt(s, q, SEP) /\ q + Len(SEP) <= Len(s)}
    IN  IF ok = {} THEN 0 ELSE CHOOSE q \in ok : \A r \in ok : q >= r

\* the pattern matches with its first character at i
MatchAt(s, i) ==
    LET p == HeaderEnd(s, i) IN p # 0 /\ MessageEnd(s, p) # 0

\* log_pattern.search(line): the leftmost index the pattern matches at, 0 when
\* it matches nowhere
Search(s) ==
    LET ok == {i \in 1..Len(s) : MatchAt(s, i)}
    IN  IF ok = {} THEN 0 ELSE CHOOSE i \in ok : \A j \in ok : i <= j

IsSpace(c) == c \in {" ", NL}
IsDigit(c) == c \in {"0", "1", "2", "3", "4", "5", "6", "7", "8", "9"}

RECURSIVE Strip(_)
Strip(s) ==
    IF s = <<>> THEN s
    ELSE IF IsSpace(s[1]) THEN Strip(Tail(s))
    ELSE IF IsSpace(s[Len(s)]) THEN Strip(SubSeq(s, 1, Len(s) - 1))
    ELSE s

\* json.loads with the fallback of lines 72-75, on the payloads of the model:
\* surrounding white space is skipped, an integer literal and "{}" decode to
\* a structure, any other text raises and is kept as the raw string.
json_loads(s) ==
    LET t == Strip(s)
    IN  IF /\ t # <<>>
           /\ \A k \in 1..Len(t) : IsDigit(t[k])
           /\ (Len(t) > 1 => t[1] # "0")
        THEN [tag |-> "Structured", value |-> t]
        ELSE IF t = <<"{", "}">>
        THEN [tag |-> "Structured", value |-> <<>>]
        ELSE [tag |-> "Raw", value |-> s]

\* the field that `[^,]+, ` matched, ending before the ", " that ends at e
Field(s, i, e) == SubSeq(s, i, e - Len(CS) - 1)

parse_log_line(line) ==
    LET i == Search(line)
    IN  IF i = 0 THEN None
        ELSE LET a == FieldEnd(line, i + Len(RID))
                 b == FieldEnd(line, a)
                 c == FieldEnd(line, b)
                 d == FieldEnd(line, c)
                 p == MessageTypeEnd(line, d)
                 q == MessageEnd(line, p)
             IN  [request_id |-> Field(line, i + Len(RID), a),
                  date_time |-> Field(line, a, b),
                  file_name |-> Field(line, b, c),
                  function_name |-> Field(line, c, d),
                  message_type |-> SubSeq(line, d, p - Len(COL) - 1),
                  message |-> SubSeq(line, p, q - 1),
                  extra_info |-> json_loads(From(line, q + Len(SEP)))]

----------------------------------------------------------------------------
(* Inputs of the parser: blobs made of the fragments a log line is made of *)

WARN == <<"W", "A", "R", "N">>
Hdr(sev) == RID \o <<"r">> \o CS \o <<"t">> \o CS \o <<"f">> \o CS \o <<"g">>
            \o CS \o sev \o COL

Frags == <<Hdr(INFO), Hdr(WARN), <<"m">>, SEP, <<"1">>, <<NL>>>>

Blobs ==
    {Concat([k \in DOMAIN ix |-> Frags[ix[k]]]) :
        ix \in UNION {[1..n -> 1..Len(Frags)] : n \in 0..MaxFrags}}

----------------------------------------------------------------------------
(* Idle values of the parts a specification does not use *)

ParseIdle == blob = <<>> /\ parsed = None /\ ppc = "idle"
LoadIdle ==
    /\ files = <<>> /\ todo = {} /\ cur = 0 /\ lineNo = 0 /\ buffer = <<>>
    /\ log_entries = <<>> /\ calls = <<>> /\ lpc = "idle"
SyncIdle ==
    /\ dirs = {} /\ disk = {} /\ sel = "" /\ listing = <<>> /\ idx = 0
    /\ count = 0 /\ reports = <<>> /\ table = {} /\ spc = "off"
TableIdle ==
    /\ df = <<>> /\ selected_time_zone = "" /\ date_range = <<>>
    /\ request_ids = {} /\ shown = <<>> /\ total_time_sec = 0 /\ tpc = "off"

----------------------------------------------------------------------------
(* SpecParse: parse_log_line applied to every blob of Blobs *)

InitParse == blob \in Blobs /\ parsed = None /\ ppc = "start" /\ LoadIdle /\ SyncIdle /\ TableIdle

Parse ==
    /\ ppc = "start"
    /\ parsed' = parse_log_line(blob)
    /\ ppc' = "done"
    /\ UNCHANGED <<blob, loadVars, syncVars, tableVars>>

NextParse == Parse

SpecParse == InitParse /\ [][NextParse]_vars

\* index of the last occurrence of lit in s, 0 when there is none
LastIndexOf(s, lit) ==
    LET occ == {q \in 1..Len(s) : StartsAt(s, q, lit)}
    IN  IF occ = {} THEN 0 ELSE CHOOSE q \in occ : \A r \in occ : q >= r

\* index of the last occurrence of lit in s that is followed by at least one
\* more character, 0 when there is none
LastIndexBeforeText(s, lit) ==
    LET occ == {q \in 1..Len(s) : StartsAt(s, q, lit) /\ q + Len(lit) <= Len(s)}
    IN  IF occ = {} THEN 0 ELSE CHOOSE q \in occ : \A r \in occ : q >= r

\* where the message of the match starts: after the ": " of the message type
MessageStart(s) == HeaderEnd(s, Search(s))

\* C2 (as claimed): a blob whose four fields are followed by a token other
\* than INFO or ERROR (here WARN) yields no record, whatever follows it.
C2_InvalidSeverityNoRecord ==
    (ppc = "done" /\ StartsAt(blob, 1, Hdr(WARN))) => parsed = None

\* C3 (as claimed): the message of a matching blob ends at the last
\* occurrence of ", extra_info: " in the blob, and extra_info is decoded from
\* all the text after that occurrence.
C3_BoundaryAtLastSeparator ==
    (ppc = "done" /\ parsed # None) =>
        LET q == LastIndexOf(blob, SEP)
        IN  /\ parsed.message = SubSeq(blob, MessageStart(blob), q - 1)
            /\ parsed.extra_info = json_loads(From(blob, q + Len(SEP)))

\* C3 (amended): the message of a matching blob ends at the last occurrence
\* of ", extra_info: " that is followed by at least one more character, and
\* extra_info is decoded from all the text after that occurrence; an
\* earlier occurrence never ends the message.
C3_BoundaryAtLastSeparatorWithPayload ==
    (ppc = "done" /\ parsed # None) =>
        LET q == LastIndexBeforeText(blob, SEP)
        IN  /\ q >= MessageStart(blob)
            /\ parsed.message = SubSeq(blob, MessageStart(blob), q - 1)
            /\ parsed.extra_info = json_loads(From(blob, q + Len(SEP)))

\* a matching blob whose message holds an earlier occurrence of the separator
C3_Witness ==
    /\ ppc = "done"
    /\ parsed # None
    /\ Contains(parsed.message, SEP)
    /\ parsed.extra_info.tag = "Structured"

----------------------------------------------------------------------------
(* load_logs *)

\* the lines a log file of the model is made of: a blank line, the first
\* line of a record whose message goes on, the last line of a record, a
\* record on one line, and a line of a message
LinePool ==
    << <<>>,
       Hdr(INFO) \o <<"m">>,
       <<"n">> \o SEP \o <<"1">>,
       Hdr(INFO) \o <<"m">> \o SEP \o <<"1">>,
       <<"n">> >>

LineSeqs ==
    {[k \in DOMAIN ix |-> LinePool[ix[k]]] :
        ix \in UNION {[1..n -> 1..Len(LinePool)] : n \in 0..MaxLines}}

\* lines 39-42: the line joins the buffer, after a newline unless the buffer
\* is the empty string
AccumulateNoNewline(buf, line) == buf \o line

Accumulate(buf, line) ==
    IF buf # <<>> THEN buf \o <<NL>> \o line ELSE line

\* lines 44-46 and 50-52: the buffer is parsed (the call is recorded with its
\* result) and the result, if it is a record, appended
Flush(eof) ==
    /\ calls' = Append(calls, [file |-> cur, line |-> lineNo, eof |-> eof,
                               blob |-> buffer, result |-> parse_log_line(buffer)])
    /\ log_entries' = IF calls'[Len(calls')].result # None
                      THEN Append(log_entries, calls'[Len(calls')].result)
                      ELSE log_entries

\* The buffer of the previous file is kept.
OpenFileKeepBuffer(f) ==
    /\ lpc = "scan" /\ cur = 0 /\ f \in todo
    /\ cur' = f /\ todo' = todo \ {f} /\ lineNo' = 0
    /\ UNCHANGED <<files, buffer, log_entries, calls, lpc, parseVars, syncVars, tableVars>>

\* lines 34-36: the next file of glob's list, in whatever order glob gives
OpenFile(f) ==
    /\ lpc = "scan" /\ cur = 0 /\ f \in todo
    /\ cur' = f /\ todo' = todo \ {f} /\ lineNo' = 0
    /\ buffer' = <<>>
    /\ UNCHANGED <<files, log_entries, calls, lpc, parseVars, syncVars, tableVars>>

\* lines 37-42: the next line of the file is read and joins the buffer
ReadLine ==
    /\ lpc = "scan" /\ cur # 0 /\ lineNo < Len(files[cur])
    /\ buffer' = Accumulate(buffer, files[cur][lineNo + 1])
    /\ lineNo' = lineNo + 1
    /\ lpc' = "test"
    /\ UNCHANGED <<files, todo, cur, calls, log_entries, parseVars, syncVars, tableVars>>

\* lines 43-47: the line just read is tested for the separator
TestLine ==
    /\ lpc = "test"
    /\ IF Contains(files[cur][lineNo], SEP)
       THEN Flush(FALSE) /\ buffer' = <<>>
       ELSE UNCHANGED <<buffer, calls, log_entries>>
    /\ lpc' = "scan"
    /\ UNCHANGED <<files, todo, cur, lineNo, parseVars, syncVars, tableVars>>

\* The remaining buffer is not parsed.
EndOfFileNoFlush ==
    /\ lpc = "scan" /\ cur # 0 /\ lineNo = Len(files[cur])
    /\ cur' = 0
    /\ UNCHANGED <<files, todo, lineNo, buffer, calls, log_entries, lpc, parseVars, syncVars, tableVars>>

\* lines 48-52: the end of the file
EndOfFile ==
    /\ lpc = "scan" /\ cur # 0 /\ lineNo = Len(files[cur])
    /\ IF buffer # <<>>
       THEN Flush(TRUE)
       ELSE UNCHANGED <<calls, log_entries>>
    /\ cur' = 0
    /\ UNCHANGED <<files, todo, lineNo, buffer, lpc, parseVars, syncVars, tableVars>>

\* lines 53-56: the records become the table
Return ==
    /\ lpc = "scan" /\ cur = 0 /\ todo = {}
    /\ lpc' = "done"
    /\ UNCHANGED <<files, todo, cur, lineNo, buffer, calls, log_entries, parseVars, syncVars, tableVars>>

\* a folder of two files that hold MaxLines lines or fewer between them
InitLoad ==
    /\ \E all \in LineSeqs : \E k \in 0..Len(all) :
          files = <<SubSeq(all, 1, k), SubSeq(all, k + 1, Len(all))>>
    /\ todo = DOMAIN files
    /\ cur = 0 /\ lineNo = 0 /\ buffer = <<>>
    /\ log_entries = <<>> /\ calls = <<>> /\ lpc = "scan"
    /\ ParseIdle /\ SyncIdle /\ TableIdle

NextLoad ==
    \/ \E f \in DOMAIN files : OpenFile(f)
    \/ ReadLine
    \/ TestLine
    \/ EndOfFile
    \/ Return

SpecLoad == InitLoad /\ [][NextLoad]_vars

----------------------------------------------------------------------------
(* Properties of load_logs *)

\* the lines a..b of a file joined by newline
RECURSIVE Join(_, _, _)
Join(file, a, b) ==
    IF a > b THEN <<>>
    ELSE IF a = b THEN file[a]
    ELSE file[a] \o <<NL>> \o Join(file, a + 1, b)

\* the first line at or after a that is not empty, b + 1 when all are empty
RECURSIVE FirstText(_, _, _)
FirstText(file, a, b) ==
    IF a > b THEN b + 1
    ELSE IF file[a] # <<>> THEN a
    ELSE FirstText(file, a + 1, b)

\* the line of the flush before the n-th call, 0 at the start of its file
PrevLine(n) ==
    IF n > 1 /\ calls[n - 1].file = calls[n].file THEN calls[n - 1].line ELSE 0

\* the files read to their end
Read == {f \in DOMAIN files : f \notin todo /\ f # cur}

\* the lines of a file that load_logs has read and tested
Scanned(f, k) ==
    f \in Read \/ (f = cur /\ (k < lineNo \/ (k = lineNo /\ lpc = "scan")))

\* the last line of a file that holds the separator, 0 when none does
LastSepLine(file) ==
    LET ls == {k \in 1..Len(file) : Contains(file[k], SEP)}
    IN  IF ls = {} THEN 0 ELSE CHOOSE k \in ls : \A j \in ls : k >= j

\* C1 (as claimed): a blob is handed to the parser exactly on the lines that
\* hold ", extra_info: " (and at the end of the file); it is all the lines
\* read since the previous flush joined by newline; the buffer is empty
\* right after.
C1_FlushOnSeparatorLine ==
    /\ \A n \in DOMAIN calls :
          LET c == calls[n]
          IN  /\ ~c.eof => Contains(files[c.file][c.line], SEP)
              /\ c.blob = Join(files[c.file], PrevLine(n) + 1, c.line)
    /\ \A f \in DOMAIN files : \A k \in 1..Len(files[f]) :
          (Contains(files[f][k], SEP) /\ Scanned(f, k))
              => \E n \in DOMAIN calls :
                    calls[n].file = f /\ calls[n].line = k /\ ~calls[n].eof
    /\ (lpc = "scan" /\ cur # 0 /\ lineNo > 0 /\ Contains(files[cur][lineNo], SEP))
          => buffer = <<>>

\* C8: a file whose lines after the last flush are not all empty gets one
\* more parse at its end, of the buffer those lines left, and the result is
\* appended when it is a record; a file whose buffer is empty at its end
\* gets none. The records are the results of the calls, in order.
C8_FinalFlush ==
    /\ \A f \in Read :
          LET file == files[f]
              a == FirstText(file, LastSepLine(file) + 1, Len(file))
              e == {n \in DOMAIN calls : calls[n].file = f /\ calls[n].eof}
          IN  IF a <= Len(file)
              THEN /\ Cardinality(e) = 1
                   /\ \A n \in e : calls[n].blob = Join(file, a, Len(file))
              ELSE e = {}
    /\ log_entries = SelectSeq([n \in DOMAIN calls |-> calls[n].result],
                               LAMBDA r : r # None)

\* a file ended with text in the buffer, which was parsed and dropped
C8_Witness ==
    \E n \in DOMAIN calls :
        calls[n].eof /\ calls[n].result = None /\ calls[n].file \in Read

\* C10: the buffer is empty when a file is opened, and every blob is made of
\* lines of one file only: the lines of that file since its previous flush
\* (leading empty lines apart), so the blobs of a file do not depend on what
\* the file read before it left unparsed.
C10_BufferPerFile ==
    /\ (cur # 0 /\ lineNo = 0) => buffer = <<>>
    /\ \A n \in DOMAIN calls :
          LET c == calls[n]
              file == files[c.file]
          IN  /\ c.blob = Join(file, FirstText(file, PrevLine(n) + 1, c.line), c.line)
              /\ c.result = parse_log_line(c.blob)

\* a file ended in an unterminated record and the file read next gave one
C10_Witness ==
    \E n \in DOMAIN calls :
        /\ n > 1
        /\ calls[n - 1].eof
        /\ StartsAt(calls[n - 1].blob, 1, RID)
        /\ calls[n].file # calls[n - 1].file
        /\ calls[n].result # None

\* the lines i..j of a file are a record of the grammar whose message spans
\* them: the header is on line i, no line before j holds the separator, and
\* the lines joined by newline match the grammar from their first character
IsMultiLineRecord(file, i, j) ==
    /\ i < j
    /\ \A k \in i..(j - 1) : ~Contains(file[k], SEP)
    /\ LET text == Join(file, i, j)
       IN  /\ MatchAt(text, 1)
           /\ HeaderEnd(text, 1) <= Len(file[i]) + 1

\* the message of a record of the grammar, written as text
MessageOf(text) ==
    SubSeq(text, HeaderEnd(text, 1), LastIndexBeforeText(text, SEP) - 1)

\* the last line before line i that holds the separator, 0 when none does
PrevSepLine(file, i) == LastSepLine(SubSeq(file, 1, i - 1))

\* no text matching the header of a record (request_id, four fields, INFO or
\* ERROR) begins in the lines read since the previous flush before line i
NoHeaderPending(file, i, j) ==
    LET pre == Join(file, PrevSepLine(file, i) + 1, j)
        start == Len(pre) - Len(Join(file, i, j)) + 1
    IN  \A k \in 1..(start - 1) : HeaderEnd(pre, k) = 0

\* load_logs made one record of the lines i..j of file f, with their message
OneRecordVerbatim(f, i, j) ==
    LET cs == {n \in DOMAIN calls : calls[n].file = f /\ calls[n].line \in i..j}
    IN  /\ Cardinality(cs) = 1
        /\ \A n \in cs :
              /\ calls[n].line = j
              /\ calls[n].result # None
              /\ calls[n].result.message = MessageOf(Join(files[f], i, j))
              /\ \E m \in DOMAIN log_entries : log_entries[m] = calls[n].result

\* C9 (as claimed): every record of the grammar whose message spans several
\* lines of a file gives exactly one record, with the message verbatim.
C9_MultiLineMessageVerbatim ==
    \A f \in DOMAIN files : \A i, j \in 1..Len(files[f]) :
        (Scanned(f, j) /\ IsMultiLineRecord(files[f], i, j))
            => OneRecordVerbatim(f, i, j)

\* C9 (amended): the same, provided no text matching a record header begins
\* in the lines read since the previous flush before the record's first
\* line.
C9_MultiLineMessageVerbatimAfterFlush ==
    \A f \in DOMAIN files : \A i, j \in 1..Len(files[f]) :
        (/\ Scanned(f, j)
         /\ IsMultiLineRecord(files[f], i, j)
         /\ NoHeaderPending(files[f], i, j))
            => OneRecordVerbatim(f, i, j)

\* a record whose message holds a blank line was read
C9_Witness ==
    \E f \in DOMAIN files : \E i, j \in 1..Len(files[f]) :
        /\ Scanned(f, j)
        /\ IsMultiLineRecord(files[f], i, j)
        /\ NoHeaderPending(files[f], i, j)
        /\ Contains(MessageOf(Join(files[f], i, j)), <<NL, NL>>)
        /\ OneRecordVerbatim(f, i, j)

----------------------------------------------------------------------------
(* main: syncing a source (lines 112-146) and loading its folder (line 151) *)

\* the sources of config.json (lines 82-97) and their folder_path
Sources == {"bots", "pdf"}
FolderPath(src) == IF src = "bots" THEN "bots_all_logs" ELSE "pdf_all_logs"

\* a path is the sequence of its components
\* lines 116-118: os.path.join(base_folder, subfolder)
BaseFolder == <<"all_logs">>
FolderOf(src) == BaseFolder \o <<FolderPath(src)>>

\* the file names a listing of the model can hold; a name is a relative
\* path, "../pdf_all_logs/a.log" being <<"..", "pdf_all_logs", "a.log">>
Names ==
    { <<"a.log">>, <<"b.txt">>,
      <<"..", "pdf_all_logs", "a.log">>, <<"..", "bots_all_logs", "a.log">> }

Listings == UNION {[1..n -> Names] : n \in 0..MaxListing}

\* the path the file system resolves: a ".." component undoes the one before
RECURSIVE Resolve(_, _)
Resolve(done, rest) ==
    IF rest = <<>> THEN done
    ELSE IF Head(rest) = ".." /\ done # <<>>
         THEN Resolve(SubSeq(done, 1, Len(done) - 1), Tail(rest))
    ELSE Resolve(Append(done, Head(rest)), Tail(rest))

\* line 25: os.path.join(save_dir, filename), as the file system resolves it
TargetOf(save_dir, filename) == Resolve(<<>>, save_dir \o filename)

DirOf(path) == SubSeq(path, 1, Len(path) - 1)

\* glob's "*.log" on the names of the model
IsLogName(name) == name \in {"a.log"}

\* lines 30-34 and 53: the files load_logs reads in a folder, each with the
\* source its bytes were downloaded from
load_logs(folder) ==
    {f \in disk : DirOf(f.path) = folder /\ IsLogName(f.path[Len(f.path)])}

\* lines 122-127: the button is pressed for a source and the listing fetched:
\* a list of names, or none with an error (lines 16-18), or an exception,
\* which line 144 catches
Click(src) ==
    /\ spc = "idle"
    /\ sel' = src
    /\ dirs' = dirs \cup {BaseFolder}
    /\ count' = 0 /\ idx' = 0 /\ reports' = <<>>
    /\ \E answer \in {"files", "error", "raise"} :
          IF answer = "files"
          THEN \E l \in Listings : listing' = l /\ spc' = IF l # <<>> THEN "loop" ELSE "load"
          ELSE listing' = <<>> /\ spc' = "load"
    /\ UNCHANGED <<disk, table, parseVars, loadVars, tableVars>>

\* lines 20-28 and 128-134: one file of the listing is downloaded. The
\* request is answered with status 200, with another status, or raises; on
\* 200 the folder is made and the file written, which raises when the
\* directory of the target does not exist. An exception leaves the loop for
\* line 144.
Download ==
    /\ spc = "loop" /\ idx < Len(listing)
    /\ LET filename == listing[idx + 1]
           save_dir == FolderOf(sel)
           target == TargetOf(save_dir, filename)
       IN  \E answer \in {"200", "other", "raise"} :
              IF answer = "200"
              THEN /\ dirs' = dirs \cup {save_dir}
                   /\ IF DirOf(target) \in dirs'
                      THEN /\ disk' = {f \in disk : f.path # target}
                                        \cup {[path |-> target, origin |-> sel]}
                           /\ count' = count + 1
                           /\ reports' = Append(reports, "Downloaded")
                           /\ spc' = "loop"
                      ELSE /\ reports' = Append(reports, "Error")
                           /\ spc' = "load"
                           /\ UNCHANGED <<disk, count>>
              ELSE IF answer = "other"
              THEN /\ reports' = Append(reports, "Failed")
                   /\ spc' = "loop"
                   /\ UNCHANGED <<dirs, disk, count>>
              ELSE /\ reports' = Append(reports, "Error")
                   /\ spc' = "load"
                   /\ UNCHANGED <<dirs, disk, count>>
    /\ idx' = idx + 1
    /\ UNCHANGED <<sel, listing, table, parseVars, loadVars, tableVars>>

\* line 135: the loop is over
Synced ==
    /\ spc = "loop" /\ idx = Len(listing)
    /\ spc' = "load"
    /\ UNCHANGED <<dirs, disk, sel, listing, idx, count, reports, table,
                   parseVars, loadVars, tableVars>>

\* line 151: the table is loaded from the folder of the selected source
Load ==
    /\ spc = "load"
    /\ table' = load_logs(FolderOf(sel))
    /\ spc' = "idle"
    /\ UNCHANGED <<dirs, disk, sel, listing, idx, count, reports,
                   parseVars, loadVars, tableVars>>

\* lines 109-119 and 151 without the button: another source is selected
Select(src) ==
    /\ spc = "idle"
    /\ sel' = src
    /\ dirs' = dirs \cup {BaseFolder}
    /\ listing' = <<>> /\ idx' = 0 /\ count' = 0 /\ reports' = <<>>
    /\ spc' = "load"
    /\ UNCHANGED <<disk, table, parseVars, loadVars, tableVars>>

InitSync ==
    /\ dirs = {} /\ disk = {} /\ sel = "bots" /\ listing = <<>> /\ idx = 0
    /\ count = 0 /\ reports = <<>> /\ table = {} /\ spc = "idle"
    /\ ParseIdle /\ LoadIdle /\ TableIdle

NextSync ==
    \/ \E src \in Sources : Click(src)
    \/ Download
    \/ Synced
    \/ Load
    \/ \E src \in Sources : Select(src)

SpecSync == InitSync /\ [][NextSync]_vars

\* C6 (as claimed): when one download of a listing fails the remaining ones
\* are still attempted, so when the sync is over every file of the listing
\* has been attempted and has its report, and the files whose download
\* succeeded are on the disk.
C6_BatchNeverAborted ==
    spc = "load" =>
        /\ idx = Len(listing)
        /\ Len(reports) = Len(listing)
        /\ \A k \in DOMAIN reports :
              reports[k] = "Downloaded" =>
                  \E f \in disk : f.path = TargetOf(FolderOf(sel), listing[k])

\* C7 (as claimed): no file downloaded for one source is in the folder of
\* the other source, nor in its table.
C7_SourcesIsolated ==
    /\ \A f \in disk : \A src \in Sources :
          DirOf(f.path) = FolderOf(src) => f.origin = src
    /\ spc = "idle" => \A f \in table : f.origin = sel

----------------------------------------------------------------------------
(* main: from the table load_logs returns to the table that is displayed   *)
(* (lines 151-226). A date_time is an instant in milliseconds; before line *)
(* 164 it is the naive time of the log, which line 164 takes as UTC.       *)

MsPerDay == 24 * 60 * 60 * 1000

\* the time zones of the model, each with a fixed offset from UTC
Zones == {"UTC", "Asia/Kolkata"}
UtcOffset(tz) == IF tz = "UTC" THEN 0 ELSE (5 * 60 + 30) * 60 * 1000

RequestIds == {"x", "y"}
\* T0, T0 + 5 s, T0 + 7.5 s, 4 ms later, and 5 s into the next day
Times == {0, 5 * 1000, 7500, 7504, MsPerDay + 5 * 1000}
Rows == [request_id : RequestIds, date_time : Times]
Tables == UNION {[1..n -> Rows] : n \in 0..MaxRecords}

\* the dates the date picker of the model offers, as days since T0's date
Dates == 0..1

\* .date() of a date_time shown in a time zone
DateIn(t, tz) == (t + UtcOffset(tz)) \div MsPerDay

\* lines 177-178: pd.to_datetime(date).tz_localize(tz), midnight of the date
\* in the time zone
Localize(date, tz) == date * MsPerDay - UtcOffset(tz)

Orderings(n) == {f \in [1..n -> 1..n] : \A a, b \in 1..n : f[a] = f[b] => a = b}

\* sort_values(by='date_time'): the rows in the order of their date_time,
\* rows of equal date_time in any order
SortValues(d, ascending) ==
    {[k \in DOMAIN d |-> d[f[k]]] : f \in
        {g \in Orderings(Len(d)) :
            \A a, b \in DOMAIN d :
                a < b => IF ascending
                         THEN d[g[a]].date_time <= d[g[b]].date_time
                         ELSE d[g[a]].date_time >= d[g[b]].date_time}}

\* df['request_id'].unique()
Unique(d) == {d[k].request_id : k \in DOMAIN d}

\* df[df['request_id'].isin(ids)]
IsIn(d, ids) == SelectSeq(d, LAMBDA r : r.request_id \in ids)

\* line 181: df[(df['date_time'] >= start_date) & (df['date_time'] <= end_date)]
Between(d, start_date, end_date) ==
    SelectSeq(d, LAMBDA r : r.date_time >= start_date /\ r.date_time <= end_date)

\* the indices of the rows of one request_id, in the order of the table
RECURSIVE GroupIndices(_, _, _)
GroupIndices(d, id, k) ==
    IF k > Len(d) THEN <<>>
    ELSE IF d[k].request_id = id THEN <<k>> \o GroupIndices(d, id, k + 1)
    ELSE GroupIndices(d, id, k + 1)

NaN == [nan |-> TRUE, ms |-> 0]

\* diff() on the whole column instead of on the groups.
DiffUngrouped(d, k) ==
    IF k = 1 THEN NaN ELSE [nan |-> FALSE, ms |-> d[k].date_time - d[k - 1].date_time]

\* line 204: groupby('request_id')['date_time'].diff() at row k: the row
\* minus the row before it in its group, NaN for the first row of a group
Diff(d, k) ==
    LET g == GroupIndices(d, d[k].request_id, 1)
        pos == CHOOSE n \in DOMAIN g : g[n] = k
    IN  IF pos = 1 THEN NaN
        ELSE [nan |-> FALSE, ms |-> d[k].date_time - d[g[pos - 1]].date_time]

\* lines 204-205: .dt.total_seconds().fillna(0) and .round(2), a number of
\* seconds with two decimals being kept as its hundredths; a half goes to the
\* even neighbour
Round2(x) ==
    LET ms == IF x.nan THEN 0 ELSE x.ms
        q == ms \div 10
        r == ms % 10
    IN  IF r < 5 THEN q
        ELSE IF r > 5 THEN q + 1
        ELSE IF q % 2 = 0 THEN q ELSE q + 1

RECURSIVE Sum(_)
Sum(xs) == IF xs = <<>> THEN 0 ELSE Head(xs) + Sum(Tail(xs))

\* lines 152-156: the table is sorted, the newest row first; without rows
\* main returns
SortDescending ==
    /\ tpc = "loaded"
    /\ IF df # <<>>
       THEN df' \in SortValues(df, FALSE) /\ tpc' = "sorted"
       ELSE df' = df /\ tpc' = "no logs"
    /\ UNCHANGED <<selected_time_zone, date_range, request_ids, shown,
                   total_time_sec, parseVars, loadVars, syncVars>>

\* lines 160-164: the time zone is selected and the date_time, taken as UTC,
\* converted to it, which leaves the instants as they are
SelectTimeZone(tz) ==
    /\ tpc = "sorted"
    /\ selected_time_zone' = tz
    /\ tpc' = "zoned"
    /\ UNCHANGED <<df, date_range, request_ids, shown, total_time_sec,
                   parseVars, loadVars, syncVars>>

\* lines 169-187: a range of two dates and the request ids among those of
\* the rows the range keeps
SearchByDate(start, end, ids) ==
    /\ tpc = "zoned"
    /\ start <= end
    /\ LET start_date == Localize(start, selected_time_zone)
           end_date == Localize(end, selected_time_zone)
           kept == Between(df, start_date, end_date)
       IN  /\ ids \subseteq Unique(kept)
           /\ df' = IF ids # {} THEN IsIn(kept, ids) ELSE kept
    /\ date_range' = <<start, end>>
    /\ request_ids' = ids
    /\ tpc' = "searched"
    /\ UNCHANGED <<selected_time_zone, shown, total_time_sec,
                   parseVars, loadVars, syncVars>>

\* lines 188-190: only one date of the range is picked yet
SearchIncomplete(start) ==
    /\ tpc = "zoned"
    /\ date_range' = <<start>>
    /\ tpc' = "select both dates"
    /\ UNCHANGED <<df, selected_time_zone, request_ids, shown, total_time_sec,
                   parseVars, loadVars, syncVars>>

\* lines 192-197: the request ids alone
SearchByRequestId(ids) ==
    /\ tpc = "zoned"
    /\ ids \subseteq Unique(df)
    /\ df' = IF ids # {} THEN IsIn(df, ids) ELSE df
    /\ request_ids' = ids
    /\ tpc' = "searched"
    /\ UNCHANGED <<selected_time_zone, date_range, shown, total_time_sec,
                   parseVars, loadVars, syncVars>>

\* lines 199-226: the rows are sorted by date_time, get their time_diff_sec
\* and are displayed with the total
Display ==
    /\ tpc = "searched"
    /\ IF df # <<>>
       THEN \E d \in SortValues(df, TRUE) :
               /\ df' = d
               /\ shown' = [k \in DOMAIN d |->
                               [request_id |-> d[k].request_id,
                                date_time |-> d[k].date_time,
                                time_diff_sec |-> Round2(Diff(d, k))]]
               /\ total_time_sec' = Sum([k \in DOMAIN d |-> Round2(Diff(d, k))])
               /\ tpc' = "displayed"
       ELSE /\ tpc' = "none found"
            /\ UNCHANGED <<df, shown, total_time_sec>>
    /\ UNCHANGED <<selected_time_zone, date_range, request_ids,
                   parseVars, loadVars, syncVars>>

\* the table load_logs returned (line 151)
InitTable ==
    /\ df \in Tables
    /\ selected_time_zone = "UTC" /\ date_range = <<>> /\ request_ids = {}
    /\ shown = <<>> /\ total_time_sec = 0 /\ tpc = "loaded"
    /\ ParseIdle /\ LoadIdle /\ SyncIdle

NextTable ==
    \/ SortDescending
    \/ \E tz \in Zones : SelectTimeZone(tz)
    \/ \E start, end \in Dates : \E ids \in SUBSET RequestIds :
          SearchByDate(start, end, ids)
    \/ \E start \in Dates : SearchIncomplete(start)
    \/ \E ids \in SUBSET RequestIds : SearchByRequestId(ids)
    \/ Display

SpecTable == InitTable /\ [][NextTable]_vars

\* the rows before row k of the displayed table that have its request_id
Before(k) == {j \in 1..(k - 1) : shown[j].request_id = shown[k].request_id}
Last(S) == CHOOSE j \in S : \A i \in S : j >= i

Ascending ==
    \A a, b \in DOMAIN shown : a < b => shown[a].date_time <= shown[b].date_time

\* C4 (as claimed): in the displayed table the time delta of a row is the
\* gap in seconds to the row before it that has its request_id, 0 for the
\* first row of a request_id.
C4_DeltaIsGapToPreviousOfRequest ==
    tpc = "displayed" =>
        /\ Ascending
        /\ \A k \in DOMAIN shown :
              shown[k].time_diff_sec * 10 =
                  IF Before(k) = {} THEN 0
                  ELSE shown[k].date_time - shown[Last(Before(k))].date_time

\* the hundredths nearest to a number of milliseconds
IsNearestHundredth(h, ms) == 2 * (h * 10 - ms) \in -10..10

\* C4 (amended): in the displayed table the time delta of a row is the gap
\* in seconds, rounded to two decimals, to the row before it that has its
\* request_id, 0 for the first row of a request_id; rows of other request
\* ids in between do not count.
C4_DeltaIsRoundedGapToPreviousOfRequest ==
    tpc = "displayed" =>
        /\ Ascending
        /\ \A k \in DOMAIN shown :
              IF Before(k) = {} THEN shown[k].time_diff_sec = 0
              ELSE IsNearestHundredth(shown[k].time_diff_sec,
                       shown[k].date_time - shown[Last(Before(k))].date_time)

\* after a filter by date, a row of another request id lies between two
\* rows of one request id whose gap is no whole number of hundredths
C4_Witness ==
    /\ tpc = "displayed"
    /\ date_range # <<>>
    /\ \E k \in DOMAIN shown :
          /\ Before(k) # {}
          /\ Last(Before(k)) < k - 1
          /\ shown[k].time_diff_sec > 0
          /\ shown[k].time_diff_sec * 10 #
                 shown[k].date_time - shown[Last(Before(k))].date_time

\* the rows of d whose date in the time zone is from start to end
DatedWithin(d, tz, start, end) ==
    SelectSeq(d, LAMBDA r : DateIn(r.date_time, tz) >= start
                            /\ DateIn(r.date_time, tz) <= end)

\* C5 (as claimed): with a range of two dates and no request id selected,
\* the filter keeps exactly the rows whose date in the selected time zone is
\* from the start date to the end date, both included, and removes the rest.
C5_DateRangeInclusive ==
    [][(tpc = "zoned" /\ tpc' = "searched" /\ date_range' # <<>> /\ request_ids' = {})
        => df' = DatedWithin(df, selected_time_zone,
                             Head(date_range'), date_range'[Len(date_range')])]_vars

====
